---------------------------- MODULE Spec2Model ----------------------------
(***************************************************************************)
(* Model of pkg/asset/agent/manifests/infraenv.go: the InfraEnv asset.     *)
(*                                                                         *)
(* An InfraEnv instance holds two fields, File and Config.  Generate       *)
(* builds the manifest from the install and agent configurations, Load     *)
(* reads it back through a FileFetcher, Files reports the File, and both   *)
(* Generate and Load end in finish, the validator.                         *)
(*                                                                         *)
(* Strings that the code inspects character by character (the SSH key) are *)
(* sequences of one-character strings.  A YAML document is a function from *)
(* the keys present in it to their values.  Go's nil is the record Nil.    *)
(* An empty list and an absent list are the same value <<>> here.          *)
(***************************************************************************)
EXTENDS Naturals, Sequences, FiniteSets, TLC

VARIABLES
    File,        \* InfraEnv.File: Nil or [Filename, Data]
    Config,      \* InfraEnv.Config: Nil or the manifest
    disk,        \* what the FileFetcher finds under infraEnvFilename: Nil or a File
    diskOrigin,  \* the Config a fresh Generate produced with the File on disk, or Nil
    call,        \* the last Generate/Load call made on the instance and its inputs
    ret,         \* what that call returned
    succeeded,   \* some Generate or Load on this instance has returned success
    failed       \* some Generate or Load on this instance has returned an error

vars == <<File, Config, disk, diskOrigin, call, ret, succeeded, failed>>

Nil == [nil |-> TRUE]

-----------------------------------------------------------------------------
(* Bounds *)

MaxKeyLen == 3      \* longest SSH key enumerated exhaustively
MaxNTP == 1         \* longest list of NTP sources

-----------------------------------------------------------------------------
(* Input domains *)

KeyChars == {"|", "\n", "\t", " ", "k"}

RECURSIVE SeqsUpTo(_, _)
SeqsUpTo(S, n) ==
    IF n = 0 THEN {<<>>}
    ELSE LET shorter == SeqsUpTo(S, n - 1)
         IN  shorter \cup {Append(s, c) : s \in {t \in shorter : Len(t) = n - 1}, c \in S}

\* "  |ssh-rsa AAA...  \n": the letters of the key body are "k"
ExampleKey == <<" ", " ", "|", "k", " ", "k", " ", " ", "\n">>

ArchTags == {"", "amd64", "arm64", "ppc64le", "x86_64", "unsupported-value"}

Proxies == {Nil, [HTTPProxy |-> "http://proxy", HTTPSProxy |-> "", NoProxy |-> ""]}

InstallConfigsWith(keys, archs, proxies) ==
    [ InfraEnvName          : {"cluster0"},
      Namespace             : {"ns0"},
      ClusterDeploymentName : {"cluster0"},
      PullSecretName        : {"cluster0-pull-secret"},
      NMStateLabels         : {"infraenv=cluster0"},
      SSHKey                : keys,
      Architecture          : archs,
      Proxy                 : proxies ]

\* the install configurations of the main specification
InstallConfigs == InstallConfigsWith({<<>>, ExampleKey}, ArchTags, Proxies)

\* the install configurations of the key-trimming specification
TrimInstallConfigs ==
    InstallConfigsWith(SeqsUpTo(KeyChars, MaxKeyLen) \cup {ExampleKey}, {"", "arm64"}, {Nil})

AgentConfigs == [ AdditionalNTPSources : SeqsUpTo({"ntp0"}, MaxNTP) ]

-----------------------------------------------------------------------------
(* Collaborators: helper lookups over the install configuration *)

getInfraEnvName(ic) == ic.InfraEnvName
getObjectMetaNamespace(ic) == ic.Namespace
getClusterDeploymentName(ic) == ic.ClusterDeploymentName
getPullSecretName(ic) == ic.PullSecretName
getNMStateConfigLabels(ic) == ic.NMStateLabels
getProxy(ic) == ic.Proxy

clusterManifestDir == "cluster-manifests"
infraEnvFilename == <<clusterManifestDir, "infraenv.yaml">>

-----------------------------------------------------------------------------
(* Pure functions *)

\* arch.RpmArch: amd64 -> x86_64, arm64 -> aarch64, anything else unchanged
RpmArchSwapped(goarch) ==
    CASE goarch = "amd64" -> "arm64"
      [] goarch = "arm64" -> "aarch64"
      [] OTHER -> goarch

RpmArch(goarch) ==
    CASE goarch = "amd64" -> "x86_64"
      [] goarch = "arm64" -> "aarch64"
      [] OTHER -> goarch

\* the cutset of strings.Trim(installConfig.Config.SSHKey, "|\n\t")
SSHKeyCutset == {"|", "\n", "\t"}

RECURSIVE TrimLeft(_, _)
TrimLeft(s, cutset) ==
    IF s # <<>> /\ Head(s) \in cutset THEN TrimLeft(Tail(s), cutset) ELSE s

RECURSIVE TrimRight(_, _)
TrimRight(s, cutset) ==
    IF s # <<>> /\ s[Len(s)] \in cutset
    THEN TrimRight(SubSeq(s, 1, Len(s) - 1), cutset)
    ELSE s

\* strings.Trim with only the leading characters removed
TrimLeadingOnly(s, cutset) == TrimLeft(s, cutset)

\* strings.Trim: all leading and trailing characters of the cutset removed
Trim(s, cutset) == TrimRight(TrimLeft(s, cutset), cutset)

\* the manifest Generate builds when installConfig.Config is not nil
BuildInfraEnv(ic, ac) ==
    [ Name                 |-> getInfraEnvName(ic),
      Namespace            |-> getObjectMetaNamespace(ic),
      ClusterRef           |-> [Name |-> getClusterDeploymentName(ic),
                                Namespace |-> getObjectMetaNamespace(ic)],
      SSHAuthorizedKey     |-> Trim(ic.SSHKey, SSHKeyCutset),
      PullSecretRef        |-> [Name |-> getPullSecretName(ic)],
      MatchLabels          |-> getNMStateConfigLabels(ic),
      CpuArchitecture      |-> IF ic.Architecture # "" THEN RpmArch(ic.Architecture) ELSE "",
      Proxy                |-> IF ic.Proxy # Nil THEN getProxy(ic) ELSE Nil,
      AdditionalNTPSources |-> IF ac # Nil THEN ac.AdditionalNTPSources ELSE <<>> ]

-----------------------------------------------------------------------------
(* Persistence: sigs.k8s.io/yaml *)

SchemaKeys ==
    {"metadata", "clusterRef", "sshAuthorizedKey", "pullSecretRef",
     "nmStateConfigLabelSelector", "cpuArchitecture", "proxy", "additionalNTPSources"}

\* yaml.Marshal that writes the required fields only
MarshalRequiredOnly(m) ==
    [ k \in {"metadata", "pullSecretRef", "nmStateConfigLabelSelector"} |->
        CASE k = "metadata" -> [name |-> m.Name, namespace |-> m.Namespace]
          [] k = "pullSecretRef" -> m.PullSecretRef
          [] k = "nmStateConfigLabelSelector" -> m.MatchLabels ]

\* yaml.Marshal: optional fields holding their zero value are left out
Marshal(m) ==
    LET present ==
            {"metadata", "pullSecretRef", "nmStateConfigLabelSelector"}
            \cup (IF m.ClusterRef # Nil THEN {"clusterRef"} ELSE {})
            \cup (IF m.SSHAuthorizedKey # <<>> THEN {"sshAuthorizedKey"} ELSE {})
            \cup (IF m.CpuArchitecture # "" THEN {"cpuArchitecture"} ELSE {})
            \cup (IF m.Proxy # Nil THEN {"proxy"} ELSE {})
            \cup (IF m.AdditionalNTPSources # <<>> THEN {"additionalNTPSources"} ELSE {})
    IN  [ k \in present |->
            CASE k = "metadata" -> [name |-> m.Name, namespace |-> m.Namespace]
              [] k = "clusterRef" -> m.ClusterRef
              [] k = "sshAuthorizedKey" -> m.SSHAuthorizedKey
              [] k = "pullSecretRef" -> m.PullSecretRef
              [] k = "nmStateConfigLabelSelector" -> m.MatchLabels
              [] k = "cpuArchitecture" -> m.CpuArchitecture
              [] k = "proxy" -> m.Proxy
              [] k = "additionalNTPSources" -> m.AdditionalNTPSources ]

Decoded(data) ==
    [ Name                 |-> data["metadata"].name,
      Namespace            |-> data["metadata"].namespace,
      ClusterRef           |-> IF "clusterRef" \in DOMAIN data THEN data["clusterRef"] ELSE Nil,
      SSHAuthorizedKey     |-> IF "sshAuthorizedKey" \in DOMAIN data
                               THEN data["sshAuthorizedKey"] ELSE <<>>,
      PullSecretRef        |-> data["pullSecretRef"],
      MatchLabels          |-> data["nmStateConfigLabelSelector"],
      CpuArchitecture      |-> IF "cpuArchitecture" \in DOMAIN data
                               THEN data["cpuArchitecture"] ELSE "",
      Proxy                |-> IF "proxy" \in DOMAIN data THEN data["proxy"] ELSE Nil,
      AdditionalNTPSources |-> IF "additionalNTPSources" \in DOMAIN data
                               THEN data["additionalNTPSources"] ELSE <<>> ]

\* yaml.Unmarshal, which ignores the keys it does not know
UnmarshalLenient(data) == [err |-> "nil", config |-> Decoded(data)]

\* yaml.UnmarshalStrict: a key outside the schema is an error
UnmarshalStrict(data) ==
    IF DOMAIN data \subseteq SchemaKeys
    THEN [err |-> "nil", config |-> Decoded(data)]
    ELSE [err |-> "decode", config |-> Nil]

\* a document with one more key than the schema has
WithUnknownField(data) ==
    [ k \in DOMAIN data \cup {"unknownField"} |->
        IF k = "unknownField" THEN "x" ELSE data[k] ]

\* the documents a user may have put on disk
UserDocs ==
    LET base == CHOOSE ic \in InstallConfigs :
                    ic.SSHKey = <<>> /\ ic.Architecture = "" /\ ic.Proxy = Nil
        plain == { Marshal([BuildInfraEnv(base, Nil) EXCEPT !.CpuArchitecture = a]) :
                     a \in ArchTags }
    IN  plain \cup { WithUnknownField(d) : d \in plain }

-----------------------------------------------------------------------------
(* The asset *)

\* os.IsNotExist that never recognises the error
IsNotExistNever(err) == FALSE

\* os.IsNotExist
IsNotExist(err) == err = "notexist"

\* the CpuArchitecture values finish lets through
SupportedArchs == {RpmArch("amd64"), RpmArch("arm64"), RpmArch("ppc64le"), ""}

\* a finish that lets a missing Config through
finishNoNilCheck(cfg) ==
    IF cfg = Nil THEN "nil"
    ELSE IF cfg.CpuArchitecture \in SupportedArchs THEN "nil" ELSE "unsupported"

\* a finish that lets every architecture through
finishAnyArch(cfg) == IF cfg = Nil THEN "missing" ELSE "nil"

\* InfraEnv.finish: the error it returns, "nil" for none
finish(cfg) ==
    IF cfg = Nil THEN "missing"
    ELSE IF cfg.CpuArchitecture \in SupportedArchs THEN "nil" ELSE "unsupported"

\* InfraEnv.Files
Files == IF File # Nil THEN <<File>> ELSE <<>>

Fresh == File = Nil /\ Config = Nil

NoCall == [op |-> "none", fresh |-> TRUE, ic |-> Nil, ac |-> Nil,
           fetch |-> "none", data |-> Nil, origin |-> Nil]

NoRet == [found |-> FALSE, err |-> "nil"]

\* a Generate that returned nil, or a Load that returned (true, nil)
Success == /\ call.op \in {"Generate", "Load"}
           /\ ret.err = "nil"
           /\ (call.op = "Load" => ret.found)

Init ==
    /\ File = Nil
    /\ Config = Nil
    /\ disk = Nil
    /\ diskOrigin = Nil
    /\ call = NoCall
    /\ ret = NoRet
    /\ succeeded = FALSE
    /\ failed = FALSE

\* a new instance: &InfraEnv{}
New ==
    /\ File' = Nil
    /\ Config' = Nil
    /\ call' = NoCall
    /\ ret' = NoRet
    /\ succeeded' = FALSE
    /\ failed' = FALSE
    /\ UNCHANGED <<disk, diskOrigin>>

\* InfraEnv.Generate; ic and ac are installConfig.Config and agentConfig.Config.
\* Config and File are assigned before finish validates, and stay assigned
\* when it fails.  yaml.Marshal cannot fail on this manifest (strings, string
\* lists and string maps only), so its error return has no step here.
Generate(ic, ac) ==
    LET infraEnv == BuildInfraEnv(ic, ac)
        cfg == IF ic # Nil THEN infraEnv ELSE Config
        file == IF ic # Nil
                THEN [Filename |-> infraEnvFilename, Data |-> Marshal(infraEnv)]
                ELSE File
        err == finish(cfg)
    IN  /\ Config' = cfg
        /\ File' = file
        /\ ret' = [found |-> FALSE, err |-> err]
        /\ call' = [op |-> "Generate", fresh |-> Fresh, ic |-> ic, ac |-> ac,
                    fetch |-> "none", data |-> Nil, origin |-> Nil]
        /\ succeeded' = (succeeded \/ err = "nil")
        /\ failed' = (failed \/ err # "nil")
        /\ UNCHANGED <<disk, diskOrigin>>

\* what f.FetchByName(infraEnvFilename) may return
FetchOutcomes ==
    {[err |-> "io", file |-> Nil]}
    \cup (IF disk = Nil THEN {[err |-> "notexist", file |-> Nil]}
          ELSE {[err |-> "nil", file |-> disk]})

\* InfraEnv.Load; f is the outcome of f.FetchByName(infraEnvFilename).
\* A fetch or decode error returns before any field is assigned; File and
\* Config are assigned before finish validates.
Load(f) ==
    LET thisCall == [op |-> "Load", fresh |-> Fresh, ic |-> Nil, ac |-> Nil,
                     fetch |-> f.err,
                     data |-> IF f.err = "nil" THEN f.file.Data ELSE Nil,
                     origin |-> IF f.err = "nil" THEN diskOrigin ELSE Nil]
    IN  /\ call' = thisCall
        /\ UNCHANGED <<disk, diskOrigin>>
        /\ IF f.err # "nil"
           THEN /\ ret' = [found |-> FALSE,
                           err |-> IF IsNotExist(f.err) THEN "nil" ELSE "fetch"]
                /\ failed' = (failed \/ ~IsNotExist(f.err))
                /\ UNCHANGED <<File, Config, succeeded>>
           ELSE LET dec == UnmarshalStrict(f.file.Data)
                IN  IF dec.err # "nil"
                    THEN /\ ret' = [found |-> FALSE, err |-> "decode"]
                         /\ failed' = TRUE
                         /\ UNCHANGED <<File, Config, succeeded>>
                    ELSE LET arch == dec.config.CpuArchitecture
                             config == [dec.config EXCEPT !.CpuArchitecture =
                                           IF arch # "" THEN RpmArch(arch) ELSE arch]
                             err == finish(config)
                         IN  /\ File' = f.file
                             /\ Config' = config
                             /\ ret' = [found |-> err = "nil", err |-> err]
                             /\ succeeded' = (succeeded \/ err = "nil")
                             /\ failed' = (failed \/ err # "nil")

\* the pipeline writes the Files of an asset that succeeded to disk
Persist ==
    /\ Success
    /\ Files # <<>>
    /\ disk' = Files[1]
    /\ diskOrigin' = IF call.op = "Generate" /\ call.fresh /\ call.ic # Nil
                     THEN Config ELSE Nil
    /\ UNCHANGED <<File, Config, call, ret, succeeded, failed>>

\* a user puts a document of their own under infraEnvFilename
UserWrite(data) ==
    /\ disk' = [Filename |-> infraEnvFilename, Data |-> data]
    /\ diskOrigin' = Nil
    /\ UNCHANGED <<File, Config, call, ret, succeeded, failed>>

GenerateStep == \E ic \in InstallConfigs \cup {Nil}, ac \in AgentConfigs \cup {Nil} : Generate(ic, ac)
LoadStep == \E f \in FetchOutcomes : Load(f)
UserWriteStep == \E data \in UserDocs : UserWrite(data)

Next ==
    \/ New
    \/ GenerateStep
    \/ LoadStep
    \/ Persist
    \/ UserWriteStep

Spec == Init /\ [][Next]_vars

\* the key-trimming specification: Generate over every SSH key up to MaxKeyLen
TrimGenerateStep == \E ic \in TrimInstallConfigs : Generate(ic, Nil)

NextTrim ==
    \/ New
    \/ TrimGenerateStep

SpecTrim == Init /\ [][NextTrim]_vars

-----------------------------------------------------------------------------
(* Observations shared by the properties *)

\* the architecture tags the manifest may carry after validation
PackagingArchs == {"x86_64", "aarch64", "ppc64le"}

\* the last call built or decoded a manifest: Generate with an install
\* configuration, or Load of a document that strict decoding accepts
ProducedManifest ==
    \/ call.op = "Generate" /\ call.ic # Nil
    \/ call.op = "Load" /\ call.fetch = "nil" /\ DOMAIN call.data \subseteq SchemaKeys

\* the architecture tag that call was given, before normalization
InputArch ==
    IF call.op = "Generate" THEN call.ic.Architecture
    ELSE IF "cpuArchitecture" \in DOMAIN call.data THEN call.data["cpuArchitecture"]
    ELSE ""

\* amd64 -> x86_64, arm64 -> aarch64, anything else unchanged
NormalizeTable(x) == IF x = "amd64" THEN "x86_64" ELSE IF x = "arm64" THEN "aarch64" ELSE x

-----------------------------------------------------------------------------
(* C1 *)

-----------------------------------------------------------------------------
(* C2 *)

\* C2: from a fresh instance, a manifest whose architecture is outside the
\* supported set makes Generate and Load return an error and leaves Files()
\* without a File Artifact.
C2_ValidationGate ==
    (call.fresh /\ ProducedManifest /\ InputArch # ""
        /\ NormalizeTable(InputArch) \notin PackagingArchs)
        => (ret.err # "nil" /\ Files = <<>>)

-----------------------------------------------------------------------------
(* C3 *)

\* C3 as stated: the authorized key neither starts nor ends with a pipe,
\* space, tab or newline, and the example key yields its body alone.
C3_TrimsSpacesToo ==
    (call.op = "Generate" /\ call.ic # Nil)
        => LET got == Config.SSHAuthorizedKey
               ws == {"|", " ", "\t", "\n"}
           IN  /\ got # <<>> => (got[1] \notin ws /\ got[Len(got)] \notin ws)
               /\ call.ic.SSHKey = ExampleKey => got = <<"k", " ", "k">>

\* C3 amended: the authorized key is the SSH key with all surrounding pipe,
\* newline and tab characters removed, so it neither starts nor ends with one
\* of these three; spaces are not removed, and the example key
\* "  |ssh-rsa AAA...  \n" yields "  |ssh-rsa AAA...  ".
C3_TrimsPipeNewlineTab ==
    (call.op = "Generate" /\ call.ic # Nil)
        => LET key == call.ic.SSHKey
               got == Config.SSHAuthorizedKey
               keep == {i \in 1..Len(key) : key[i] \notin {"|", "\n", "\t"}}
               lo == CHOOSE i \in keep : \A j \in keep : i <= j
               hi == CHOOSE i \in keep : \A j \in keep : j <= i
           IN  /\ got = IF keep = {} THEN <<>> ELSE SubSeq(key, lo, hi)
               /\ key = ExampleKey => got = <<" ", " ", "|", "k", " ", "k", " ", " ">>

C3_Witness ==
    /\ call.op = "Generate" /\ call.ic # Nil
    /\ call.ic.SSHKey = <<"|", "k", "\n">>
    /\ Config.SSHAuthorizedKey = <<"k">>

-----------------------------------------------------------------------------
(* C4 *)

\* C4: a Load that fetches a document with a key outside the schema returns
\* (false, error) and leaves File and Config as they were before the call.
C4_UnknownFieldLeavesAsset ==
    [][ \A f \in FetchOutcomes :
          (f.err = "nil" /\ ~(DOMAIN f.file.Data \subseteq SchemaKeys) /\ Load(f))
              => /\ ret'.found = FALSE
                 /\ ret'.err # "nil"
                 /\ File' = File
                 /\ Config' = Config ]_vars

C4_Witness ==
    /\ call.op = "Load" /\ call.fresh /\ call.fetch = "nil"
    /\ "unknownField" \in DOMAIN call.data
    /\ ret = [found |-> FALSE, err |-> "decode"]
    /\ Files = <<>> /\ Config = Nil

-----------------------------------------------------------------------------
(* C5 *)

\* C5: when the fetcher reports that the file does not exist, Load returns
\* (false, nil) and leaves File and Config unchanged; any other fetch error
\* makes Load return (false, error).
C5_NotFound ==
    [][ \A f \in FetchOutcomes :
          (f.err # "nil" /\ Load(f))
              => /\ ret'.found = FALSE
                 /\ f.err = "notexist" =>
                        (ret'.err = "nil" /\ File' = File /\ Config' = Config)
                 /\ f.err # "notexist" => ret'.err # "nil" ]_vars

C5_Witness ==
    /\ call.op = "Load" /\ call.fetch = "notexist"
    /\ ret = [found |-> FALSE, err |-> "nil"]
    /\ ~call.fresh /\ Config # Nil /\ File # Nil

-----------------------------------------------------------------------------
(* C6 *)

-----------------------------------------------------------------------------
(* C7 *)

\* C7: the normalizer maps amd64 to x86_64, arm64 to aarch64 and leaves
\* every other tag unchanged, on Generate and on Load alike, and applying it
\* to its own result changes nothing: the architecture an instance holds is a
\* fixed point of the normalizer.
C7_NormalizeIdempotent ==
    /\ Config # Nil => RpmArch(Config.CpuArchitecture) = Config.CpuArchitecture
    /\ ProducedManifest =>
          /\ Config.CpuArchitecture = NormalizeTable(InputArch)
          /\ RpmArch(RpmArch(InputArch)) = RpmArch(InputArch)

C7_Witness ==
    /\ call.op = "Load" /\ ProducedManifest
    /\ InputArch = "amd64"
    /\ Config.CpuArchitecture = "x86_64"

-----------------------------------------------------------------------------
(* C8 *)

\* C8: Files() returns no File Artifact before a Generate or Load of the
\* instance has succeeded, exactly one, under the canonical path, once one
\* has, and never more than one.
C8_FileCount ==
    /\ ~succeeded => Len(Files) = 0
    /\ succeeded => (Len(Files) = 1 /\ Files[1].Filename = infraEnvFilename)
    /\ Len(Files) <= 1

-----------------------------------------------------------------------------
(* C9 *)

\* C9: after a successful Generate or Load the manifest's architecture is
\* empty or one of x86_64, aarch64, ppc64le; amd64 and arm64 are accepted and
\* stored as x86_64 and aarch64; any other non-empty tag outside the set
\* makes the call return an error.
C9_ArchitectureInvariant ==
    /\ Success => (Config # Nil /\ Config.CpuArchitecture \in PackagingArchs \cup {""})
    /\ ProducedManifest =>
          /\ InputArch = "amd64" => (Success /\ Config.CpuArchitecture = "x86_64")
          /\ InputArch = "arm64" => (Success /\ Config.CpuArchitecture = "aarch64")
          /\ InputArch \notin PackagingArchs \cup {"", "amd64", "arm64"} => ret.err # "nil"

C9_Witness ==
    /\ Success /\ call.op = "Generate"
    /\ InputArch = "arm64"
    /\ Config.CpuArchitecture = "aarch64"

-----------------------------------------------------------------------------
(* C10 *)

\* C10 as stated: once a call on an instance has returned an error, no later
\* Generate or Load on that instance returns success.
C10_FailureIsTerminal == failed => ~Success

\* C10 amended: the instance does not latch a failure.  After a call has
\* returned an error, a later Generate or Load on the same instance returns
\* success exactly when the instance then holds a manifest whose architecture
\* is empty or supported and, for Load, the fetch and the strict decoding
\* succeeded.
C10_FailureNotLatched ==
    (failed /\ call.op # "none")
        => (Success <=>
               /\ Config # Nil
               /\ Config.CpuArchitecture \in PackagingArchs \cup {""}
               /\ call.op = "Load" => ProducedManifest)

C10_Witness ==
    /\ failed
    /\ Success
    /\ call.op = "Load"

=============================================================================
